---- MODULE Spec2Model ----
(***************************************************************************)
(* Model of scripts/generate_semantic_view.py: the lexical column          *)
(* extraction (parse_sql_file), the rendering of a classification into a   *)
(* semantic view (generate_semantic_view_sql), the version resolution      *)
(* (get_next_version) and the batch pipeline (main and                     *)
(* process_semantic_directory) over a filesystem.                          *)
(*                                                                         *)
(* A Python str is a sequence of one-character strings; a rendered         *)
(* artifact is the sequence of its lines (sql_parts before the join).      *)
(***************************************************************************)
EXTENDS Integers, Sequences, FiniteSets, TLC

VARIABLES
    \* ---- parse_sql_file
    matches,        \* result of re.findall: a sequence of captured selects
    columns,        \* the returned column list, NotYet before the call
    \* ---- generate_semantic_view_sql
    classification, \* the ClassificationResult handed to the generator
    sql_parts,      \* the rendered lines, NotYet before the call
    \* ---- main / process_semantic_directory
    rootExists,     \* Path('models').exists()
    semantic_dirs,  \* models/*/semantic
    sql_files,      \* [dir -> set of model names (file stems)]
    preexisting,    \* [dir -> file names in semantic_views before any run]
    outdirs,        \* dirs whose semantic_views directory exists
    files,          \* [dir -> [file name -> content]] of semantic_views
    pc,             \* position of main: start, dirs, models, done, crashed
    todoDirs,       \* semantic dirs the loop of main has not reached yet
    todoFiles,      \* models the loop of the current dir has not reached
    curDir,         \* the directory being processed
    calls,          \* [dir -> classification requests sent for its models]
    nproc,          \* [dir -> [model -> successful passes so far]]
    prevCls,        \* [dir -> [model -> <<classification of its last pass>>]]
    failed,         \* a classification request failed in the current run
    visited,        \* dirs handed to process_semantic_directory this run
    last            \* <<what the latest pass of this run did>>, or <<>>

parseVars  == <<matches, columns>>
renderVars == <<classification, sql_parts>>
pipeVars   == <<rootExists, semantic_dirs, sql_files, preexisting, outdirs,
                files, pc, todoDirs, todoFiles, curDir, calls, nproc,
                prevCls, failed, visited, last>>
vars == <<matches, columns, classification, sql_parts, rootExists,
          semantic_dirs, sql_files, preexisting, outdirs, files, pc,
          todoDirs, todoFiles, curDir, calls, nproc, prevCls, failed,
          visited, last>>

NotYet == "NotYet"
None   == "None"

(***************************************************************************)
(* Bounds.                                                                 *)
(***************************************************************************)
\* longest captured select clause handed to the column extraction
MaxLen == 6
\* most entries of a classification's column mapping
MaxCols == 3
\* most primary keys of a classification
MaxKeys == 2
\* most classification requests sent to one semantic directory
MaxCalls == 4

(***************************************************************************)
(* Python str operations.                                                  *)
(***************************************************************************)
LowerLetters == <<"a","b","c","d","e","f","g","h","i","j","k","l","m",
                  "n","o","p","q","r","s","t","u","v","w","x","y","z">>
UpperLetters == <<"A","B","C","D","E","F","G","H","I","J","K","L","M",
                  "N","O","P","Q","R","S","T","U","V","W","X","Y","Z">>
Digits == <<"0","1","2","3","4","5","6","7","8","9">>

\* str.lower / str.upper on one character
LowerChar(c) ==
    IF \E i \in 1..26 : UpperLetters[i] = c
    THEN LowerLetters[CHOOSE i \in 1..26 : UpperLetters[i] = c]
    ELSE c
UpperChar(c) ==
    IF \E i \in 1..26 : LowerLetters[i] = c
    THEN UpperLetters[CHOOSE i \in 1..26 : LowerLetters[i] = c]
    ELSE c
lower(s) == [i \in 1..Len(s) |-> LowerChar(s[i])]
upper(s) == [i \in 1..Len(s) |-> UpperChar(s[i])]

IsSpace(c) == c \in {" ", "\n", "\t", "\r"}

\* str.strip()
RECURSIVE lstrip(_)
lstrip(s) == IF s # <<>> /\ IsSpace(Head(s)) THEN lstrip(Tail(s)) ELSE s
RECURSIVE rstrip(_)
rstrip(s) ==
    IF s # <<>> /\ IsSpace(s[Len(s)]) THEN rstrip(SubSeq(s, 1, Len(s) - 1))
    ELSE s
strip(s) == rstrip(lstrip(s))

startswith(s, p) == Len(s) >= Len(p) /\ SubSeq(s, 1, Len(p)) = p
endswith(s, p) ==
    Len(s) >= Len(p) /\ SubSeq(s, Len(s) - Len(p) + 1, Len(s)) = p

\* positions at which sep occurs in s
Occurrences(s, sep) ==
    {i \in 1..(Len(s) - Len(sep) + 1) : SubSeq(s, i, i + Len(sep) - 1) = sep}
\* sep in s
contains(s, sep) == Occurrences(s, sep) # {}

Min(S) == CHOOSE x \in S : \A y \in S : x <= y
Max(S) == CHOOSE x \in S : \A y \in S : x >= y

\* str.split(sep): left to right, without overlap
RECURSIVE split(_, _)
split(s, sep) ==
    IF contains(s, sep)
    THEN LET i == Min(Occurrences(s, sep))
         IN  <<SubSeq(s, 1, i - 1)>>
             \o split(SubSeq(s, i + Len(sep), Len(s)), sep)
    ELSE <<s>>

\* str.replace(old, '') for a one-character old
RECURSIVE remove(_, _)
remove(s, c) ==
    IF s = <<>> THEN <<>>
    ELSE IF Head(s) = c THEN remove(Tail(s), c)
    ELSE <<Head(s)>> \o remove(Tail(s), c)

\* sep.join(parts)
RECURSIVE join(_, _)
join(sep, parts) ==
    IF parts = <<>> THEN <<>>
    ELSE IF Len(parts) = 1 THEN parts[1]
    ELSE parts[1] \o sep \o join(sep, Tail(parts))

\* str(n) for a natural number
RECURSIVE str(_)
str(n) == IF n < 10 THEN <<Digits[n + 1]>>
          ELSE str(n \div 10) \o <<Digits[(n % 10) + 1]>>

IsDigit(c) == \E i \in 1..10 : Digits[i] = c
DigitValue(c) == (CHOOSE i \in 1..10 : Digits[i] = c) - 1
\* int(s) for a string of decimal digits
RECURSIVE int(_)
int(s) == IF s = <<>> THEN 0
          ELSE 10 * int(SubSeq(s, 1, Len(s) - 1)) + DigitValue(s[Len(s)])

(***************************************************************************)
(* parse_sql_file, lines 27-44: the column names of the last captured      *)
(* select clause.                                                          *)
(***************************************************************************)
AS == <<" ", "a", "s", " ">>

\* lines 35-40: the name of one projection item
ColumnName(item) ==
    LET line == strip(item)
        col_name ==
            IF contains(lower(line), AS)
            THEN LET parts == split(lower(line), AS)
                 IN  strip(parts[Len(parts)])
            ELSE LET parts == split(line, <<".">>)
                 IN  strip(parts[Len(parts)])
    IN  remove(remove(col_name, "\""), "'")

\* lines 41-42
Kept(col_name) == col_name # <<>> /\ ~startswith(col_name, <<"-", "-">>)

RECURSIVE KeptNames(_)
KeptNames(items) ==
    IF items = <<>> THEN <<>>
    ELSE LET col_name == ColumnName(Head(items))
         IN  (IF Kept(col_name) THEN <<col_name>> ELSE <<>>)
             \o KeptNames(Tail(items))

\* lines 27-44
parse_columns(ms) ==
    IF ms # <<>>
    THEN LET final_select == ms[Len(ms)]
         IN  KeptNames(split(final_select, <<",">>))
    ELSE <<>>

\* characters of the select clauses the extraction is tried on
Alphabet == {"A", "s", " ", ".", ",", "'", "-"}
Strings(n) == UNION {[1..k -> Alphabet] : k \in 0..n}
\* the group (.*?) between select\s+ and \s+from neither starts nor ends
\* with white space
Captured == {s \in Strings(MaxLen) :
                s = <<>> \/ (~IsSpace(s[1]) /\ ~IsSpace(s[Len(s)]))}

(***************************************************************************)
(* generate_semantic_view_sql, lines 127-180.  A classification is         *)
(* [primary_keys |-> sequence of names, columns |-> sequence of            *)
(* [col, type, comment]]; the sequence is the dict in insertion order.     *)
(* An absent 'primary_keys' or 'comment' reads as the empty list or the    *)
(* empty string (the defaults of the .get calls of lines 129 and 156).     *)
(***************************************************************************)
\* '{{ config('
ConfigLine1 ==
    <<"{","{"," ","c","o","n","f","i","g","(">>
\* "  materialized = 'semantic_view',"
ConfigLine2 ==
    <<" "," ","m","a","t","e","r","i","a","l","i","z","e","d"," ","=",
      " ","'","s","e","m","a","n","t","i","c","_","v","i","e","w","'",
      ",">>
\* '  copy_grants = true'
ConfigLine3 ==
    <<" "," ","c","o","p","y","_","g","r","a","n","t","s"," ","="," ",
      "t","r","u","e">>
\* ') }}'
ConfigLine4 ==
    <<")"," ","}","}">>
\* 'TABLES ('
TablesOpen ==
    <<"T","A","B","L","E","S"," ","(">>
\* 'FACTS ('
FactsOpen ==
    <<"F","A","C","T","S"," ","(">>
\* 'DIMENSIONS ('
DimensionsOpen ==
    <<"D","I","M","E","N","S","I","O","N","S"," ","(">>
\* ')'
Close ==
    <<")">>
\* "  model AS {{ ref('"
ModelAsRef ==
    <<" "," ","m","o","d","e","l"," ","A","S"," ","{","{"," ","r","e",
      "f","(","'">>
\* "') }}"
RefEnd ==
    <<"'",")"," ","}","}">>
\* '    PRIMARY KEY ('
PrimaryKeyOpen ==
    <<" "," "," "," ","P","R","I","M","A","R","Y"," ","K","E","Y"," ",
      "(">>
\* '  model.'
ColumnPrefix ==
    <<" "," ","m","o","d","e","l",".">>
\* ' AS '
AsKeyword ==
    <<" ","A","S"," ">>
\* "    COMMENT = '"
CommentOpen ==
    <<" "," "," "," ","C","O","M","M","E","N","T"," ","="," ","'">>
\* "'"
Quote ==
    <<"'">>
\* ', '
CommaSpace ==
    <<","," ">>
\* "COMMENT = 'Semantic view for "
OverallOpen ==
    <<"C","O","M","M","E","N","T"," ","="," ","'","S","e","m","a","n",
      "t","i","c"," ","v","i","e","w"," ","f","o","r"," ">>
\* " model. Enables natural language queries via Cortex Analyst'"
OverallEnd ==
    <<" ","m","o","d","e","l","."," ","E","n","a","b","l","e","s"," ",
      "n","a","t","u","r","a","l"," ","l","a","n","g","u","a","g","e",
      " ","q","u","e","r","i","e","s"," ","v","i","a"," ","C","o","r",
      "t","e","x"," ","A","n","a","l","y","s","t","'">>

\* the list comprehensions of lines 152 and 164
RECURSIVE OfType(_, _)
OfType(columns_info, type) ==
    IF columns_info = <<>> THEN <<>>
    ELSE (IF Head(columns_info).type = type THEN <<Head(columns_info)>>
          ELSE <<>>)
         \o OfType(Tail(columns_info), type)

\* lines 136-140
ConfigSection == <<ConfigLine1, ConfigLine2, ConfigLine3, ConfigLine4, <<>>>>

\* line 144
PkStr(primary_keys) ==
    join(CommaSpace, [i \in 1..Len(primary_keys) |-> upper(primary_keys[i])])

\* variant: without the test of line 146
TablesSectionAlwaysKeyed(primary_keys, ref_model_name) ==
    <<TablesOpen, ModelAsRef \o ref_model_name \o RefEnd,
      PrimaryKeyOpen \o PkStr(primary_keys) \o Close, Close, <<>>>>
\* lines 143-149
TablesSection(primary_keys, ref_model_name) ==
    LET pk_str == PkStr(primary_keys)
    IN  <<TablesOpen, ModelAsRef \o ref_model_name \o RefEnd>>
        \o (IF pk_str # <<>>
            THEN <<PrimaryKeyOpen \o pk_str \o Close>>
            ELSE <<>>)
        \o <<Close, <<>>>>

\* variant: a comma after the last entry too
CommaEvery(i, n) == <<",">>
\* lines 157 and 169: ',' if i < len(entries) - 1 else '', i counted from 0
Comma(i, n) == IF i < n - 1 THEN <<",">> ELSE <<>>

\* lines 158 and 170
ColumnLine(col) == ColumnPrefix \o upper(col) \o AsKeyword \o upper(col)

\* lines 156-159
FactEntry(info, i, n) ==
    <<ColumnLine(info.col),
      CommentOpen \o info.comment \o Quote \o Comma(i, n)>>

\* lines 168-174
DimensionEntry(info, i, n) ==
    IF info.comment # <<>>
    THEN <<ColumnLine(info.col),
           CommentOpen \o info.comment \o Quote \o Comma(i, n)>>
    ELSE <<ColumnLine(info.col) \o Comma(i, n)>>

RECURSIVE FactEntries(_, _)
FactEntries(facts, i) ==
    IF i >= Len(facts) THEN <<>>
    ELSE FactEntry(facts[i + 1], i, Len(facts)) \o FactEntries(facts, i + 1)

RECURSIVE DimensionEntries(_, _)
DimensionEntries(dimensions, i) ==
    IF i >= Len(dimensions) THEN <<>>
    ELSE DimensionEntry(dimensions[i + 1], i, Len(dimensions))
         \o DimensionEntries(dimensions, i + 1)

\* variant: without the test of line 153
FactsSectionUnguarded(columns_info) ==
    <<FactsOpen>> \o FactEntries(OfType(columns_info, "FACT"), 0)
    \o <<Close, <<>>>>
\* lines 152-161
FactsSection(columns_info) ==
    LET facts == OfType(columns_info, "FACT")
    IN  IF facts # <<>>
        THEN <<FactsOpen>> \o FactEntries(facts, 0) \o <<Close, <<>>>>
        ELSE <<>>

\* lines 164-175
DimensionsSection(columns_info) ==
    LET dimensions == OfType(columns_info, "DIMENSION")
    IN  IF dimensions # <<>>
        THEN <<DimensionsOpen>> \o DimensionEntries(dimensions, 0) \o <<Close>>
        ELSE <<>>

\* line 178
OverallComment(model_name) == OverallOpen \o model_name \o OverallEnd

\* lines 127-180, before the final join: one element per line
generate_semantic_view_sql(model_name, c, ref_model_name) ==
    ConfigSection
    \o TablesSection(c.primary_keys, ref_model_name)
    \o FactsSection(c.columns)
    \o DimensionsSection(c.columns)
    \o <<OverallComment(model_name)>>

\* ---- the classifications the generator is tried on
ColPool == <<<<"i","d">>, <<"N","a","m","e">>, <<"a","m","t">>, <<"t","s">>>>
ColNames == {ColPool[i] : i \in 1..(IF MaxCols < 4 THEN MaxCols ELSE 4)}
KeyNames == {<<>>, <<"i","d">>}
Types == {"FACT", "DIMENSION"}
Comments == {<<>>, <<"n",",">>}
Infos == [col : ColNames, type : Types, comment : Comments]
\* a dict has each key once
ColumnMaps ==
    UNION {{s \in [1..k -> Infos] :
              \A i, j \in 1..k : i # j => s[i].col # s[j].col}
           : k \in 0..MaxCols}
KeyLists == UNION {[1..k -> KeyNames] : k \in 0..MaxKeys}
Classifications == [primary_keys : KeyLists, columns : ColumnMaps]
\* the model the generator is tried on
RenderModel == <<"a">>

(***************************************************************************)
(* get_next_version, lines 182-202, and the file names of lines 250-253.   *)
(* models_dir is given by the set of the file names it holds.              *)
(***************************************************************************)
\* '_semantic_view'
SemanticView ==
    <<"_","s","e","m","a","n","t","i","c","_","v","i","e","w">>
\* '.sql'
DotSql ==
    <<".","s","q","l">>
\* '_v'
VersionMark ==
    <<"_","v">>

\* lines 185-186: models_dir.glob(f"{base_name}_semantic_view*.sql"), for a
\* base_name without glob metacharacters
GlobMatches(name, base_name) ==
    LET prefix == base_name \o SemanticView
    IN  /\ Len(name) >= Len(prefix) + Len(DotSql)
        /\ startswith(name, prefix)
        /\ endswith(name, DotSql)

\* the length of the longest run of digits that ends s
RECURSIVE DigitRun(_)
DigitRun(s) ==
    IF s # <<>> /\ IsDigit(s[Len(s)])
    THEN 1 + DigitRun(SubSeq(s, 1, Len(s) - 1))
    ELSE 0

\* variant: the _v<N> suffix is not read
FileVersionIgnoringSuffix(name) == 1
\* lines 195-200: re.search(r'_v(\d+)\.sql$', f.name), else version 1
FileVersion(name) ==
    IF endswith(name, DotSql)
    THEN LET stem == SubSeq(name, 1, Len(name) - Len(DotSql))
             n == DigitRun(stem)
             head == SubSeq(stem, 1, Len(stem) - n)
         IN  IF n >= 1 /\ endswith(head, VersionMark)
             THEN int(SubSeq(stem, Len(stem) - n + 1, Len(stem)))
             ELSE 1
    ELSE 1

\* lines 182-202
get_next_version(names, base_name) ==
    LET existing_files == {f \in names : GlobMatches(f, base_name)}
        versions == {FileVersion(f) : f \in existing_files}
    IN  IF existing_files = {} THEN 1 ELSE Max(versions) + 1

\* variant: every version goes to the unsuffixed file
OutputFileNameUnversioned(model_name, version) ==
    model_name \o SemanticView \o DotSql
\* lines 250-253
OutputFileName(model_name, version) ==
    IF version = 1
    THEN model_name \o SemanticView \o DotSql
    ELSE model_name \o SemanticView \o VersionMark \o str(version) \o DotSql

\* str.strip() of a text given as the sequence of its lines
RECURSIVE lstripLines(_)
lstripLines(ls) ==
    IF Len(ls) > 1 /\ lstrip(ls[1]) = <<>> THEN lstripLines(Tail(ls))
    ELSE <<lstrip(ls[1])>> \o Tail(ls)
RECURSIVE rstripLines(_)
rstripLines(ls) ==
    IF Len(ls) > 1 /\ rstrip(ls[Len(ls)]) = <<>>
    THEN rstripLines(SubSeq(ls, 1, Len(ls) - 1))
    ELSE SubSeq(ls, 1, Len(ls) - 1) \o <<rstrip(ls[Len(ls)])>>
stripText(ls) == rstripLines(lstripLines(ls))

(***************************************************************************)
(* The filesystem main runs on.                                            *)
(***************************************************************************)
\* models/p1/semantic and models/p2/semantic
Dirs == {"p1", "p2"}
ModelA == <<"a">>
\* 'a_semantic_view_b'
ModelB == ModelA \o SemanticView \o <<"_","b">>
\* the .sql files a semantic directory may hold
ModelsOf(d) == IF d = "p1" THEN {ModelA, ModelB} ELSE {ModelA}
\* files semantic_views of p1 may hold before the first run
PreNames ==
    { ModelA \o SemanticView \o DotSql,
      ModelA \o SemanticView \o VersionMark \o <<"2">> \o DotSql,
      ModelA \o SemanticView \o <<"_","o","l","d","_","v","0","4">> \o DotSql }
OldContent == << <<"o","l","d">> >>
\* what the classification service answers in the runs of main
Answer1 ==
    [primary_keys |-> << <<"i","d">> >>,
     columns |-> << [col |-> <<"i","d">>, type |-> "DIMENSION",
                     comment |-> <<>>],
                    [col |-> <<"a","m","t">>, type |-> "FACT",
                     comment |-> <<"n",",">>] >>]
Answer2 ==
    [primary_keys |-> <<>>,
     columns |-> << [col |-> <<"i","d">>, type |-> "FACT",
                     comment |-> <<>>] >>]
Answers == {Answer1, Answer2}

RECURSIVE Sum(_, _)
Sum(f, S) == IF S = {} THEN 0
             ELSE LET x == CHOOSE x \in S : TRUE
                  IN  f[x] + Sum(f, S \ {x})
TotalCalls == Sum(calls, Dirs)

(***************************************************************************)
(* main, lines 272-296, and process_semantic_directory, lines 204-270.     *)
(* One step per classification request: the request is the only point at   *)
(* which the outside world answers.                                        *)
(***************************************************************************)
Idle == /\ rootExists = FALSE /\ semantic_dirs = {}
        /\ sql_files = [d \in Dirs |-> {}]
        /\ preexisting = [d \in Dirs |-> {}]
        /\ outdirs = {} /\ files = [d \in Dirs |-> <<>>]
        /\ pc = "idle" /\ todoDirs = {} /\ todoFiles = {} /\ curDir = None
        /\ calls = [d \in Dirs |-> 0]
        /\ nproc = [d \in Dirs |-> [m \in ModelsOf(d) |-> 0]]
        /\ prevCls = [d \in Dirs |-> [m \in ModelsOf(d) |-> <<>>]]
        /\ failed = FALSE /\ visited = {} /\ last = <<>>

InitPipeline ==
    /\ rootExists \in BOOLEAN
    /\ semantic_dirs \in SUBSET Dirs
    /\ ~rootExists => semantic_dirs = {}
    /\ sql_files \in [Dirs -> SUBSET ({ModelA, ModelB})]
    /\ \A d \in Dirs : /\ sql_files[d] \subseteq ModelsOf(d)
                       /\ d \notin semantic_dirs => sql_files[d] = {}
    /\ preexisting \in [Dirs -> SUBSET PreNames]
    /\ \A d \in Dirs : (d # "p1" \/ d \notin semantic_dirs)
                          => preexisting[d] = {}
    /\ outdirs = {d \in Dirs : preexisting[d] # {}}
    /\ files = [d \in Dirs |-> [n \in preexisting[d] |-> OldContent]]
    /\ pc = "start" /\ todoDirs = {} /\ todoFiles = {} /\ curDir = None
    /\ calls = [d \in Dirs |-> 0]
    /\ nproc = [d \in Dirs |-> [m \in ModelsOf(d) |-> 0]]
    /\ prevCls = [d \in Dirs |-> [m \in ModelsOf(d) |-> <<>>]]
    /\ failed = FALSE /\ visited = {} /\ last = <<>>

\* lines 276-294, up to the first directory
MainStart ==
    /\ pc = "start"
    /\ IF ~rootExists \/ semantic_dirs = {}
       THEN pc' = "done" /\ todoDirs' = {}
       ELSE pc' = "dirs" /\ todoDirs' = semantic_dirs
    /\ UNCHANGED <<rootExists, semantic_dirs, sql_files, preexisting,
                   outdirs, files, todoFiles, curDir, calls, nproc, prevCls,
                   failed, visited, last>>

\* variant: a directory without .sql files ends main
NoSqlModelsEndsRun(d) ==
    /\ pc' = "done" /\ todoDirs' = {}
    /\ UNCHANGED <<todoFiles, curDir>>
\* lines 216-218: no .sql file, return to the loop of main
NoSqlModels(d) ==
    /\ todoDirs' = todoDirs \ {d}
    /\ pc' = IF todoDirs \ {d} = {} THEN "done" ELSE "dirs"
    /\ UNCHANGED <<todoFiles, curDir>>

\* lines 293-294 and 206-220: the next directory of the loop of main
EnterDirectory(d) ==
    /\ pc = "dirs" /\ d \in todoDirs
    /\ outdirs' = outdirs \cup {d}
    /\ visited' = visited \cup {d}
    /\ IF sql_files[d] = {}
       THEN NoSqlModels(d)
       ELSE /\ pc' = "models" /\ curDir' = d
            /\ todoFiles' = sql_files[d]
            /\ todoDirs' = todoDirs \ {d}
    /\ UNCHANGED <<rootExists, semantic_dirs, sql_files, preexisting, files,
                   calls, nproc, prevCls, failed, last>>

\* the loops of lines 222 and 293 after the pass over model m
Advance(m) ==
    /\ todoFiles' = todoFiles \ {m}
    /\ pc' = IF todoFiles \ {m} # {} THEN "models"
             ELSE IF todoDirs # {} THEN "dirs" ELSE "done"
    /\ UNCHANGED <<todoDirs, curDir>>

\* lines 255-265
NeedsUpdate(dirfiles, version, output_file, semantic_view_sql) ==
    IF version > 1 THEN TRUE
    ELSE IF output_file \in DOMAIN dirfiles
    THEN stripText(dirfiles[output_file]) # stripText(semantic_view_sql)
    ELSE TRUE

\* lines 223-270: one pass of the loop, the service answering c
ModelPass(m, c) ==
    /\ pc = "models" /\ m \in todoFiles
    /\ TotalCalls < MaxCalls
    /\ LET d == curDir
           semantic_view_sql == generate_semantic_view_sql(m, c, m)
           version == get_next_version(DOMAIN files[d], m)
           output_file == OutputFileName(m, version)
           needs_update ==
               NeedsUpdate(files[d], version, output_file, semantic_view_sql)
       IN  /\ calls' = [calls EXCEPT ![d] = @ + 1]
           /\ files' =
                 IF needs_update
                 THEN [files EXCEPT ![d] =
                          [n \in DOMAIN files[d] \cup {output_file} |->
                              IF n = output_file THEN semantic_view_sql
                              ELSE files[d][n]]]
                 ELSE files
           /\ nproc' = [nproc EXCEPT ![d][m] = @ + 1]
           /\ prevCls' = [prevCls EXCEPT ![d][m] = <<c>>]
           /\ last' = << [dir |-> d, model |-> m, cls |-> c,
                          prev |-> prevCls[d][m], pre |-> files[d],
                          version |-> version, output_file |-> output_file,
                          compared |-> (version = 1
                                        /\ output_file \in DOMAIN files[d]),
                          wrote |-> needs_update,
                          up_to_date |-> ~needs_update] >>
    /\ Advance(m)
    /\ UNCHANGED <<rootExists, semantic_dirs, sql_files, preexisting,
                   outdirs, failed, visited>>

\* variant: the exception is caught and the loop goes on
ContinueWithNextModel(m) == Advance(m)
\* line 241 raises and nothing catches it: main ends with the exception
Propagate(m) ==
    /\ pc' = "crashed"
    /\ UNCHANGED <<todoDirs, todoFiles, curDir>>

\* lines 223-241: one pass of the loop, the request failing
ClassificationFails(m) ==
    /\ pc = "models" /\ m \in todoFiles
    /\ TotalCalls < MaxCalls
    /\ calls' = [calls EXCEPT ![curDir] = @ + 1]
    /\ failed' = TRUE
    /\ Propagate(m)
    /\ UNCHANGED <<rootExists, semantic_dirs, sql_files, preexisting,
                   outdirs, files, nproc, prevCls, visited, last>>

\* the script is started again
Rerun ==
    /\ pc \in {"done", "crashed"}
    /\ pc' = "start" /\ todoDirs' = {} /\ todoFiles' = {} /\ curDir' = None
    /\ failed' = FALSE /\ visited' = {} /\ last' = <<>>
    /\ UNCHANGED <<rootExists, semantic_dirs, sql_files, preexisting,
                   outdirs, files, calls, nproc, prevCls>>

Init ==
    /\ matches = <<>> /\ columns = NotYet
    /\ classification = None /\ sql_parts = NotYet
    /\ InitPipeline

Next ==
    \/ MainStart /\ UNCHANGED <<parseVars, renderVars>>
    \/ \E d \in Dirs : EnterDirectory(d) /\ UNCHANGED <<parseVars, renderVars>>
    \/ \E m \in {ModelA, ModelB}, c \in Answers :
          ModelPass(m, c) /\ UNCHANGED <<parseVars, renderVars>>
    \/ \E m \in {ModelA, ModelB} :
          ClassificationFails(m) /\ UNCHANGED <<parseVars, renderVars>>
    \/ Rerun /\ UNCHANGED <<parseVars, renderVars>>

Spec == Init /\ [][Next]_vars

(***************************************************************************)
(* parse_sql_file on its own: every captured select clause.                *)
(***************************************************************************)
InitParse ==
    /\ matches \in {<<>>} \cup {<<s>> : s \in Captured}
    /\ columns = NotYet
    /\ classification = None /\ sql_parts = NotYet
    /\ Idle

Parse ==
    /\ columns = NotYet
    /\ columns' = parse_columns(matches)
    /\ UNCHANGED <<matches, renderVars, pipeVars>>

NextParse == Parse

SpecParse == InitParse /\ [][NextParse]_vars

(***************************************************************************)
(* generate_semantic_view_sql on its own: every classification.            *)
(***************************************************************************)
InitRender ==
    /\ matches = <<>> /\ columns = NotYet
    /\ classification \in Classifications
    /\ sql_parts = NotYet
    /\ Idle

Render ==
    /\ sql_parts = NotYet
    /\ sql_parts' =
          generate_semantic_view_sql(RenderModel, classification, RenderModel)
    /\ UNCHANGED <<classification, parseVars, pipeVars>>

NextRender == Render

SpecRender == InitRender /\ [][NextRender]_vars

(***************************************************************************)
(* Properties of parse_sql_file (SpecParse).                               *)
(***************************************************************************)
\* C4: every column name parse_sql_file returns is lower-case, whatever the
\* casing of the source, with or without an alias.
C4_ColumnsLowerCase ==
    columns # NotYet =>
        \A i \in 1..Len(columns) : columns[i] = lower(columns[i])

(***************************************************************************)
(* Properties of generate_semantic_view_sql (SpecRender).                  *)
(***************************************************************************)
Rendered == sql_parts # NotYet
LinesEqual(line) == {i \in 1..Len(sql_parts) : sql_parts[i] = line}
IsFact(info) == info.type = "FACT"
IsDimension(info) == info.type = "DIMENSION"
GivenFacts == SelectSeq(classification.columns, IsFact)
GivenDimensions == SelectSeq(classification.columns, IsDimension)

\* the PRIMARY KEY lines of the rendered text
KeyLines ==
    {i \in 1..Len(sql_parts) : startswith(sql_parts[i], PrimaryKeyOpen)}
\* exactly one PRIMARY KEY line, the second line after 'TABLES (', listing
\* the keys upper-cased, in order, separated by ', '
OneKeyLine(pk) ==
    /\ Cardinality(KeyLines) = 1
    /\ \A i \in KeyLines :
          /\ \E t \in LinesEqual(TablesOpen) : i = t + 2
          /\ endswith(sql_parts[i], Close)
          /\ split(SubSeq(sql_parts[i], Len(PrimaryKeyOpen) + 1,
                          Len(sql_parts[i]) - 1), CommaSpace)
             = [k \in 1..Len(pk) |-> upper(pk[k])]

\* C7: no PRIMARY KEY line for an empty primary-key list; for every
\* non-empty list exactly one PRIMARY KEY line, in the TABLES block, listing
\* all keys upper-cased, in order, separated by commas.
C7_PrimaryKeyClause ==
    Rendered =>
        LET pk == classification.primary_keys
        IN  IF pk = <<>> THEN KeyLines = {} ELSE OneKeyLine(pk)

\* C7 as amended: no PRIMARY KEY line when the primary-key list is empty or
\* holds only one empty name; for every other list exactly one PRIMARY KEY
\* line, in the TABLES block, listing all keys upper-cased, in order,
\* separated by ', '.
C7_PrimaryKeyClauseAmended ==
    Rendered =>
        LET pk == classification.primary_keys
        IN  IF pk = <<>> \/ pk = << <<>> >> THEN KeyLines = {}
            ELSE OneKeyLine(pk)

\* C7 witness: a list of two different keys was rendered into a PRIMARY KEY
\* line.
C7_Witness ==
    /\ Rendered
    /\ Len(classification.primary_keys) = 2
    /\ classification.primary_keys[1] # classification.primary_keys[2]
    /\ KeyLines # {}

\* C8: a FACTS block is rendered iff some column is classified FACT, a
\* DIMENSIONS block iff some column is classified DIMENSION; FACTS is closed
\* before DIMENSIONS opens; both come after the TABLES block and before the
\* final overall COMMENT line.
C8_SectionPresenceAndOrder ==
    Rendered =>
        LET F == LinesEqual(FactsOpen)
            D == LinesEqual(DimensionsOpen)
            T == LinesEqual(TablesOpen)
            n == Len(sql_parts)
        IN  /\ (F # {}) <=> (GivenFacts # <<>>)
            /\ (D # {}) <=> (GivenDimensions # <<>>)
            /\ Cardinality(F) <= 1 /\ Cardinality(D) <= 1
            /\ Cardinality(T) = 1
            /\ \A f \in F, d \in D :
                  f < d /\ \E k \in (f + 1)..(d - 1) : sql_parts[k] = Close
            /\ \A t \in T, x \in F \cup D :
                  /\ x < n
                  /\ \E k \in (t + 1)..(x - 1) : sql_parts[k] = Close
            /\ startswith(sql_parts[n], OverallOpen)
            /\ \A i \in 1..(n - 1) : ~startswith(sql_parts[i], OverallOpen)

\* C8 witness: a classification with a FACT and a DIMENSION was rendered.
C8_Witness ==
    Rendered /\ GivenFacts # <<>> /\ GivenDimensions # <<>>

\* the lines of a block, between its opening line and the next ')' line
BlockLines(open) ==
    IF LinesEqual(open) = {} THEN <<>>
    ELSE LET o == Min(LinesEqual(open))
             c == Min({k \in (o + 1)..Len(sql_parts) : sql_parts[k] = Close})
         IN  SubSeq(sql_parts, o + 1, c - 1)
\* the lines at which the entries of a block start
EntryStarts(block) ==
    {i \in 1..Len(block) : startswith(block[i], ColumnPrefix)}
EntryEnd(block, i) ==
    IF \E j \in EntryStarts(block) : j > i
    THEN Min({j \in EntryStarts(block) : j > i}) - 1
    ELSE Len(block)
\* entries of the block are well separated: given is what the block lists
WellSeparated(block, given, commentAlways) ==
    /\ Cardinality(EntryStarts(block)) = Len(given)
    /\ Len(given) > 0 => 1 \in EntryStarts(block)
    /\ \A i \in EntryStarts(block) :
          LET k == Cardinality({j \in EntryStarts(block) : j <= i})
              e == EntryEnd(block, i)
              isLast == (k = Len(given))
              info == given[k]
              ref == <<" "," ","m","o","d","e","l",".">> \o upper(info.col)
                     \o <<" ","A","S"," ">> \o upper(info.col)
              comment == CommentOpen \o info.comment \o Quote
              sep == IF isLast THEN <<>> ELSE <<",">>
              hasComment == commentAlways \/ info.comment # <<>>
          IN  /\ isLast <=> (e = Len(block))
              /\ IF hasComment
                 THEN e = i + 1 /\ block[i] = ref /\ block[e] = comment \o sep
                 ELSE e = i /\ block[i] = ref \o sep

\* C9: in the FACTS and the DIMENSIONS block every entry but the last ends
\* with exactly one comma and the last with none; the comma ends the entry's
\* COMMENT line when there is one; a DIMENSION with an empty comment has no
\* COMMENT line and carries the comma on its column-reference line.
C9_EntrySeparation ==
    Rendered =>
        /\ WellSeparated(BlockLines(FactsOpen), GivenFacts, TRUE)
        /\ WellSeparated(BlockLines(DimensionsOpen), GivenDimensions, FALSE)

\* C9 witness: a DIMENSIONS block of two or more entries whose first has an
\* empty comment, next to a FACTS block, was rendered.
C9_Witness ==
    /\ Rendered
    /\ Len(GivenDimensions) >= 2 /\ GivenDimensions[1].comment = <<>>
    /\ \E i \in 2..Len(GivenDimensions) : GivenDimensions[i].comment # <<>>
    /\ Len(GivenFacts) >= 1

(***************************************************************************)
(* Properties of the pipeline (Spec).  last describes the latest pass over *)
(* a model in the current run; files is then the directory after it.       *)
(***************************************************************************)
Passed == last # <<>>
\* the file names matching <base>_semantic_view*.sql: some middle part fits
MatchingFiles(names, base) ==
    {f \in names :
        \E k \in 0..(Len(f) - Len(base) - Len(SemanticView) - Len(DotSql)) :
            f = base \o SemanticView
                \o SubSeq(f, Len(base) + Len(SemanticView) + 1,
                          Len(base) + Len(SemanticView) + k)
                \o DotSql}
\* versions a file name can carry within MaxCalls passes
VersionRange == 0..(5 + MaxCalls)
Zeros(z) == [i \in 1..z |-> "0"]
\* a file ending in _v<N>.sql counts as N, any other file as 1
CountsAs(f) ==
    IF \E n \in VersionRange, z \in 0..2 :
          endswith(f, <<"_","v">> \o Zeros(z) \o str(n) \o DotSql)
    THEN CHOOSE n \in VersionRange : \E z \in 0..2 :
          endswith(f, <<"_","v">> \o Zeros(z) \o str(n) \o DotSql)
    ELSE 1
\* <model>_semantic_view.sql for 1, <model>_semantic_view_v<N>.sql for N > 1
ArtifactName(model, n) ==
    IF n = 1
    THEN model \o <<"_","s","e","m","a","n","t","i","c","_","v","i","e","w",
                    ".","s","q","l">>
    ELSE model \o <<"_","s","e","m","a","n","t","i","c","_","v","i","e","w",
                    "_","v">> \o str(n) \o <<".","s","q","l">>
IsArtifactOf(name, model) ==
    \E n \in VersionRange \ {0} : name = ArtifactName(model, n)

\* C1: a model handled twice, from an output directory without an artifact
\* of it and with the same classification both times: the second pass
\* creates and modifies no file and reports 'already up to date'.
C1_IdempotentAtVersion1 ==
    ( /\ Passed
      /\ nproc[last[1].dir][last[1].model] = 2
      /\ MatchingFiles(preexisting[last[1].dir], last[1].model) = {}
      /\ last[1].prev = <<last[1].cls>> )
    => /\ ~last[1].wrote
       /\ last[1].up_to_date
       /\ files[last[1].dir] = last[1].pre

\* C2: get_next_version is 1 when no file matches <base>_semantic_view*.sql
\* and otherwise 1 plus the greatest version among the matching files; the
\* pass writes <model>_semantic_view.sql for 1 and
\* <model>_semantic_view_v<N>.sql for N > 1, then without comparing contents.
C2_VersionResolution ==
    Passed =>
        LET names == DOMAIN last[1].pre
            M == MatchingFiles(names, last[1].model)
            expected == IF M = {} THEN 1
                        ELSE 1 + Max({CountsAs(f) : f \in M})
            rendered ==
                generate_semantic_view_sql(last[1].model, last[1].cls,
                                           last[1].model)
        IN  /\ last[1].version = expected
            /\ last[1].output_file = ArtifactName(last[1].model, expected)
            /\ expected > 1 => last[1].wrote /\ ~last[1].compared
            /\ last[1].wrote =>
                  /\ last[1].output_file \in DOMAIN files[last[1].dir]
                  /\ files[last[1].dir][last[1].output_file] = rendered
            /\ ( /\ last[1].model = ModelA
                 /\ ArtifactName(ModelA, 1) \in names
                 /\ ArtifactName(ModelA, 2) \in names
                 /\ \A f \in M : CountsAs(f) <= 2 )
               => last[1].output_file =
                     <<"a","_","s","e","m","a","n","t","i","c","_","v","i",
                       "e","w","_","v","3",".","s","q","l">>

\* C2 witness: a pass found exactly a_semantic_view.sql and
\* a_semantic_view_v2.sql and wrote a_semantic_view_v3.sql.
C2_Witness ==
    /\ Passed /\ last[1].model = ModelA
    /\ DOMAIN last[1].pre =
          {ArtifactName(ModelA, 1), ArtifactName(ModelA, 2)}
    /\ last[1].wrote /\ last[1].version = 3

\* C3: once a classification request has failed, the run sends no further
\* request and creates or modifies no file or directory; the failing
\* request itself is sent once, writes nothing and ends the run.
C3_FailureHaltsRun ==
    [][ /\ failed =>
             /\ files' = files /\ calls' = calls /\ outdirs' = outdirs
             /\ nproc' = nproc
        /\ (~failed /\ failed') =>
             /\ files' = files /\ outdirs' = outdirs /\ nproc' = nproc
             /\ \E d \in Dirs : calls' = [calls EXCEPT ![d] = @ + 1]
             /\ pc' = "crashed" ]_vars

\* C3 witness: the request for the second model of a directory failed after
\* the first model's artifact was written, with a directory still to come.
C3_Witness ==
    /\ failed /\ pc = "crashed" /\ Passed
    /\ last[1].wrote /\ last[1].dir = curDir
    /\ todoDirs # {}

\* C5: without the models directory or without a semantic directory main
\* returns having sent no request and created nothing; a semantic directory
\* without .sql files gets no request and no artifact, and the directories
\* after it are still processed.
C5_MissingInput ==
    /\ (~rootExists \/ semantic_dirs = {}) =>
          /\ pc \in {"start", "done"}
          /\ TotalCalls = 0 /\ outdirs = {}
          /\ \A d \in Dirs : DOMAIN files[d] = {}
    /\ \A d \in Dirs :
          sql_files[d] = {} =>
             /\ calls[d] = 0
             /\ files[d] = [n \in preexisting[d] |-> OldContent]
    /\ (pc = "done" /\ ~failed) => visited = semantic_dirs
    /\ (pc = "dirs" /\ ~failed) => visited \cup todoDirs = semantic_dirs

\* C5 witness: a run ended normally in which one directory had no .sql file
\* and another one got an artifact.
C5_Witness ==
    /\ pc = "done" /\ Passed
    /\ \E d \in visited : sql_files[d] = {}
    /\ \E d \in visited : sql_files[d] # {} /\ DOMAIN files[d] # {}

\* C6: the version and the file chosen for a model depend only on the
\* model's own artifacts, not on those of another model of the directory,
\* and the pass creates or modifies no artifact of another model.
C6_Independence ==
    Passed =>
        LET d == last[1].dir
            A == last[1].model
            others == {n \in DOMAIN last[1].pre :
                          \E B \in sql_files[d] \ {A} : IsArtifactOf(n, B)}
            own == DOMAIN last[1].pre \ others
        IN  /\ last[1].version = get_next_version(own, A)
            /\ last[1].output_file =
                  OutputFileName(A, get_next_version(own, A))
            /\ \A B \in sql_files[d] \ {A} :
                  ~IsArtifactOf(last[1].output_file, B)
            /\ \A n \in others :
                  n \in DOMAIN files[d] /\ files[d][n] = last[1].pre[n]

====
